---- MODULE Spec2Model ----
(***************************************************************************)
(* A model of the PDP-10 disk editor's word codec (src/src/lib/pdp10.ts):   *)
(* the 36-bit word in its 64-bit little-endian SIMH slot, the halfword,     *)
(* octal, hex, binary, SIXBIT and ASCII-7 conversions, and the disk         *)
(* geometry table with its sector <-> cylinder/head/sector translation;     *)
(* and of the disk image built on it (lib/diskImage, kept in src/src/App.tsx): *)
(* loading and creating an image, word, sector and range access, search     *)
(* and export; and of the editor around it: the App's state and handlers    *)
(* (src/src/App.tsx, components/Toolbar.tsx), the HexView page and its      *)
(* in-place editor (src/unnamed/part_001) and the instruction decode of     *)
(* WordDetails (src/unnamed/part_000).                                      *)
(*                                                                         *)
(* A BigInt (and any integer too wide for the checker's 32-bit integers)    *)
(* is kept as an infinite two's-complement bit string: a finite sequence    *)
(* of bits, least significant first, continued for ever by the sign bit.    *)
(* A string is the sequence of its character codes.                         *)
(***************************************************************************)
EXTENDS Integers, Sequences, FiniteSets, TLC

VARIABLES
    buffer,         \* disk.buffer, the ArrayBuffer: its byteLength and its bytes, see ByteAt
    argWord,        \* argument: a Word36, or any BigInt passed as one
    argHalves,      \* argument: a pair of Numbers passed as halfwords
    argText,        \* argument: a string
    argGeometry,    \* argument: the index into DISK_TYPES of a geometry
    argSector,      \* argument: a linear sector number
    op,             \* the function that ran last, "none" before any ran
    off,            \* the byte offset it was given
    retWord,        \* result: the Word36 it returned
    retPair,        \* result: the pair of halfwords it returned
    retStr,         \* result: the string it returned
    retCHS,         \* result: the {cylinder, head, sector} it returned
    err,            \* the exception it threw, "" when it returned
    argSize,        \* argument: a file size in bytes
    retGeometry,    \* result: the index into DISK_TYPES of the geometry returned, 0 for null
    diskName,       \* disk.name, a string (empty while there is no image)
    diskGeometry,   \* disk.geometry: an index into DISK_TYPES, 0 for null
    diskModified,   \* disk.modified
    origin,         \* how the image was made: "none", "loadDiskImage" or "createEmptyDisk"
    loaded,         \* the buffer as the image was made with it
    written,        \* the value last passed to writeWord for each word index written so far
    writes,         \* the number of setWord and setSector calls made on the image
    exported,       \* the content of the Blob downloadDisk made last, "none" before
    argIndex,       \* argument: a word index, sector number or start index
    argCount,       \* argument: a count of words
    argWords,       \* argument: a sequence of words (a sector's words, a search pattern)
    retWords,       \* result: the sequence of words returned
    retIndex,       \* result: the index returned
    decoded,        \* result: the instruction fields WordDetails shows
    displayMode,    \* App: the display mode
    viewStartWord,  \* App: startWord, the index of the first word of the page
    selectedWord,   \* App: <<>> for null, <<n>> for the word index n
    rowCount,       \* HexView: the rows of the page
    viewWords,      \* HexView: words, the page as useMemo holds it
    editingWord,    \* HexView: <<>> for null, <<n>> for the word index n
    editValue,      \* HexView: the text in the edit box
    modifiedCounter,\* App: the counter onDiskModified bumps
    rendered,       \* how the last render ended: "" or the exception it threw
    events,         \* the navigation events handled since the image was made
    opens           \* the images opened or created in the editor

\* the image and its history
imageVars == <<diskName, diskGeometry, diskModified, origin, loaded, written, writes, exported>>

\* the arguments and results of the image operations
imageRegs == <<argIndex, argCount, argWords, retWords, retIndex>>

\* the state of App and HexView
appVars ==
    <<displayMode, viewStartWord, selectedWord, rowCount, viewWords, editingWord, editValue,
      modifiedCounter, rendered, events, opens>>

vars ==
    <<buffer, argWord, argHalves, argText, argGeometry, argSector, op, off, retWord, retPair,
      retStr, retCHS, err, argSize, retGeometry, imageVars, imageRegs, decoded, appVars>>

(***************************************************************************)
(* Bounds of the model.                                                    *)
(***************************************************************************)
NumSlots == 2       \* 8-byte slots in the buffer
MaxTextLen == 3     \* longest string typed into a parser
MaxWrites == 2      \* setWord and setSector calls made on one image
MaxScan == 16       \* most word positions one searchWords call may have to visit
MaxEvents == 2      \* navigation events (go to, click, scroll, resize) handled on one image
MaxOpens == 1       \* images opened or created in the editor

(***************************************************************************)
(* Program constants.                                                      *)
(***************************************************************************)
BITS_PER_WORD == 36
BYTES_PER_SIMH_WORD == 8
WORDS_PER_SECTOR == 128
BYTES_PER_SECTOR == WORDS_PER_SECTOR * BYTES_PER_SIMH_WORD
WORDS_PER_ROW == 8

(***************************************************************************)
(* BigInt arithmetic, as the JavaScript operators &, |, <<, >> and unary - *)
(* define it on two's complement of unbounded width.                       *)
(***************************************************************************)
Max(a, b) == IF a >= b THEN a ELSE b
Min(a, b) == IF a <= b THEN a ELSE b

Pow2(n) == 2 ^ n

SignBit(neg) == IF neg THEN 1 ELSE 0

\* the number of bits left of the first n when the top bits that only repeat the sign go
RECURSIVE TrimLen(_, _, _)
TrimLen(neg, bits, n) ==
    IF n > 0 /\ bits[n] = SignBit(neg) THEN TrimLen(neg, bits, n - 1) ELSE n

\* the canonical form: no bit at the top that only repeats the sign
Trim(neg, bits) == [neg |-> neg, bits |-> SubSeq(bits, 1, TrimLen(neg, bits, Len(bits)))]

BitAt(x, i) == IF i < Len(x.bits) THEN x.bits[i + 1] ELSE SignBit(x.neg)

BigAnd(x, y) ==
    Trim(x.neg /\ y.neg,
         [i \in 1..Max(Len(x.bits), Len(y.bits)) |-> BitAt(x, i - 1) * BitAt(y, i - 1)])

BigOr(x, y) ==
    Trim(x.neg \/ y.neg,
         [i \in 1..Max(Len(x.bits), Len(y.bits)) |-> Max(BitAt(x, i - 1), BitAt(y, i - 1))])

BigShl(x, n) == Trim(x.neg, [i \in 1..n |-> 0] \o x.bits)

BigShr(x, n) ==
    Trim(x.neg, IF n >= Len(x.bits) THEN <<>> ELSE SubSeq(x.bits, n + 1, Len(x.bits)))

\* x + 1 on the bit string: the carry runs up through the low 1 bits
RECURSIVE IncBits(_)
IncBits(bits) ==
    IF bits = <<>> THEN <<1>>
    ELSE IF Head(bits) = 0 THEN <<1>> \o Tail(bits)
    ELSE <<0>> \o IncBits(Tail(bits))

\* -x = ~x + 1, on two bits more than x holds so that the sign is explicit
BigNeg(x) ==
    LET w == Len(x.bits) + 2
        inv == [i \in 1..w |-> 1 - BitAt(x, i - 1)]
        sum == IncBits(inv)
    IN  Trim(sum[w] = 1, SubSeq(sum, 1, w))

\* BigInt(n) of an integer Number n that the checker's integers hold
RECURSIVE NatBits(_)
NatBits(n) == IF n = 0 THEN <<>> ELSE <<n % 2>> \o NatBits(n \div 2)

BigInt(n) ==
    IF n >= 0 THEN [neg |-> FALSE, bits |-> NatBits(n)]
    ELSE BigNeg([neg |-> FALSE, bits |-> NatBits(0 - n)])

\* Number(x) of a BigInt x >= 0 of at most 30 bits
RECURSIVE BitsValue(_)
BitsValue(bits) == IF bits = <<>> THEN 0 ELSE Head(bits) + 2 * BitsValue(Tail(bits))

Number(x) == BitsValue(x.bits)

\* 2^n - 1, the masks 0x3F, 0x7F, 0x3FFFF, 0xFFFFFFFF, 0xFFFFFFFFF written in bits
LowMask(n) == [neg |-> FALSE, bits |-> [i \in 1..n |-> 1]]

WORD_MASK == LowMask(BITS_PER_WORD)

(***************************************************************************)
(* DataView over the buffer: little-endian 32-bit access, a RangeError     *)
(* when the four bytes do not lie inside the buffer.  The 32-bit Number    *)
(* is carried in bits, Number() and BigInt() being exact on it.            *)
(***************************************************************************)
\* An ArrayBuffer is its byteLength and its bytes.  A disk pack holds hundreds of megabytes,
\* nearly all of them zero, so the bytes are kept as the function from the offsets of the
\* non-zero bytes to their values; every other offset below byteLength holds 0.
ByteAt(buf, o) == IF o \in DOMAIN buf.bytes THEN buf.bytes[o] ELSE 0

\* new ArrayBuffer(n): n bytes, all zero
NewArrayBuffer(n) == [byteLength |-> n, bytes |-> [o \in {} |-> 0]]

\* the ArrayBuffer holding a sequence of bytes
ArrayBuffer(seq) ==
    [byteLength |-> Len(seq),
     bytes |-> [o \in {i - 1 : i \in {j \in 1..Len(seq) : seq[j] # 0}} |-> seq[o + 1]]]

ByteBits(b) == [i \in 1..8 |-> (b \div Pow2(i - 1)) % 2]

InView(buf, byteOffset, size) == byteOffset >= 0 /\ byteOffset + size <= buf.byteLength

getUint32(buf, byteOffset) ==
    IF ~InView(buf, byteOffset, 4) THEN [threw |-> TRUE, value |-> BigInt(0)]
    ELSE [threw |-> FALSE,
          value |-> Trim(FALSE, ByteBits(ByteAt(buf, byteOffset)) \o ByteBits(ByteAt(buf, byteOffset + 1))
                                \o ByteBits(ByteAt(buf, byteOffset + 2))
                                \o ByteBits(ByteAt(buf, byteOffset + 3)))]

\* byte k (0..3) of the value converted to Uint32
Uint32Byte(value, k) == BitsValue([i \in 1..8 |-> BitAt(value, 8 * k + i - 1)])

setUint32(buf, byteOffset, value) ==
    IF ~InView(buf, byteOffset, 4) THEN [threw |-> TRUE, buffer |-> buf]
    ELSE LET new(o) == IF o >= byteOffset /\ o < byteOffset + 4
                       THEN Uint32Byte(value, o - byteOffset)
                       ELSE ByteAt(buf, o)
             touched == DOMAIN buf.bytes \cup byteOffset..(byteOffset + 3)
         IN  [threw |-> FALSE,
              buffer |-> [byteLength |-> buf.byteLength,
                          bytes |-> [o \in {t \in touched : new(t) # 0} |-> new(o)]]]

(***************************************************************************)
(* readWord, writeWord                                                     *)
(***************************************************************************)
\* readWord without the mask to 36 bits
readWordUnmasked(buf, byteOffset) ==
    LET low == getUint32(buf, byteOffset)
        high == getUint32(buf, byteOffset + 4)
    IN  IF low.threw \/ high.threw THEN [threw |-> TRUE, value |-> BigInt(0)]
        ELSE [threw |-> FALSE, value |-> BigOr(BigShl(high.value, 32), low.value)]

readWord(buf, byteOffset) ==
    LET low == getUint32(buf, byteOffset)
        high == getUint32(buf, byteOffset + 4)
    IN  IF low.threw \/ high.threw THEN [threw |-> TRUE, value |-> BigInt(0)]
        ELSE [threw |-> FALSE,
              value |-> BigAnd(BigOr(BigShl(high.value, 32), low.value), WORD_MASK)]

\* writeWord with the high part taken above bit 36 instead of bit 32
writeWordShift36(buf, byteOffset, word) ==
    LET masked == BigAnd(word, WORD_MASK)
        first == setUint32(buf, byteOffset, BigAnd(masked, LowMask(32)))
    IN  IF first.threw THEN first
        ELSE setUint32(first.buffer, byteOffset + 4, BigShr(masked, 36))

\* writeWord without the mask to 36 bits
writeWordUnmasked(buf, byteOffset, word) ==
    LET first == setUint32(buf, byteOffset, BigAnd(word, LowMask(32)))
    IN  IF first.threw THEN first
        ELSE setUint32(first.buffer, byteOffset + 4, BigShr(word, 32))

\* writeWord that stores the low 32 bits only
writeWordLowOnly(buf, byteOffset, word) ==
    setUint32(buf, byteOffset, BigAnd(BigAnd(word, WORD_MASK), LowMask(32)))

\* the second setUint32 runs on what the first one left; an exception keeps what was written
writeWord(buf, byteOffset, word) ==
    LET masked == BigAnd(word, WORD_MASK)
        first == setUint32(buf, byteOffset, BigAnd(masked, LowMask(32)))
    IN  IF first.threw THEN first
        ELSE setUint32(first.buffer, byteOffset + 4, BigShr(masked, 32))

(***************************************************************************)
(* A JavaScript Number: an integer, or NaN (what parseInt gives for a      *)
(* string with no digit).  x & m on Numbers converts NaN to 0.             *)
(***************************************************************************)
Num(n) == [nan |-> FALSE, val |-> n]
NaN == [nan |-> TRUE, val |-> 0]

Int32And(x, m) == IF x.nan THEN 0 ELSE Number(BigAnd(BigInt(x.val), BigInt(m)))

(***************************************************************************)
(* Halfwords                                                               *)
(***************************************************************************)
leftHalf(word) == Number(BigAnd(BigShr(word, 18), LowMask(18)))

rightHalf(word) == Number(BigAnd(word, LowMask(18)))

\* makeWord with the left halfword shifted by 16
makeWordShift16(left, right) ==
    BigOr(BigShl(BigInt(Int32And(left, 262143)), 16), BigInt(Int32And(right, 262143)))

makeWord(left, right) ==
    BigOr(BigShl(BigInt(Int32And(left, 262143)), 18), BigInt(Int32And(right, 262143)))

(***************************************************************************)
(* Strings: toString(radix), padStart, toUpperCase, replace(/\s/g, ''),    *)
(* includes, split.  '0' is 48, 'a' is 97, 'A' is 65, ',' is 44, '-' 45.   *)
(***************************************************************************)
DigitChar(d) == IF d < 10 THEN 48 + d ELSE 87 + d

RECURSIVE IntDigits(_, _)
IntDigits(n, radix) ==
    IF n < radix THEN <<DigitChar(n)>>
    ELSE IntDigits(n \div radix, radix) \o <<DigitChar(n % radix)>>

\* Number.prototype.toString(radix) of an integer
NumberToString(n, radix) ==
    IF n < 0 THEN <<45>> \o IntDigits(0 - n, radix) ELSE IntDigits(n, radix)

\* BigInt.prototype.toString(2^k): k bits a digit, no leading zero, "0" for zero
BigDigits(x, k) ==
    LET nd == Max(1, (Len(x.bits) + k - 1) \div k)
    IN  [j \in 1..nd |->
            DigitChar(BitsValue([b \in 1..k |-> BitAt(x, k * (nd - j) + b - 1)]))]

BigToString(x, k) == IF x.neg THEN <<45>> \o BigDigits(BigNeg(x), k) ELSE BigDigits(x, k)

padStart(s, n, c) == IF Len(s) >= n THEN s ELSE [i \in 1..(n - Len(s)) |-> c] \o s

toUpperCase(s) == [i \in 1..Len(s) |-> IF s[i] >= 97 /\ s[i] <= 122 THEN s[i] - 32 ELSE s[i]]

\* what the regular expression \s matches
IsSpace(c) ==
    c \in {9, 10, 11, 12, 13, 32, 160, 5760, 8232, 8233, 8239, 8287, 12288, 65279}
    \/ (c >= 8192 /\ c <= 8202)

StripSpace(s) == SelectSeq(s, LAMBDA c : ~IsSpace(c))

includes(s, c) == \E i \in 1..Len(s) : s[i] = c

RECURSIVE split(_, _)
split(s, sep) ==
    IF ~includes(s, sep) THEN <<s>>
    ELSE LET i == CHOOSE k \in 1..Len(s) : s[k] = sep /\ \A j \in 1..(k - 1) : s[j] # sep
         IN  <<SubSeq(s, 1, i - 1)>> \o split(SubSeq(s, i + 1, Len(s)), sep)

(***************************************************************************)
(* formatOctal, formatOctalFull, formatHex, formatBinary                   *)
(***************************************************************************)
formatOctal(word) ==
    padStart(NumberToString(leftHalf(word), 8), 6, 48) \o <<44>>
        \o padStart(NumberToString(rightHalf(word), 8), 6, 48)

formatOctalFull(word) == padStart(BigToString(word, 3), 12, 48)

\* formatHex padded to 8 digits
formatHexPad8(word) == padStart(toUpperCase(BigToString(word, 4)), 8, 48)

formatHex(word) == padStart(toUpperCase(BigToString(word, 4)), 9, 48)

formatBinary(word) == padStart(BigToString(word, 1), 36, 48)

(***************************************************************************)
(* parseInt(string, radix) and BigInt(string)                              *)
(***************************************************************************)
\* the value of a character as a digit, 36 when it is none
DigitValue(c) ==
    IF c >= 48 /\ c <= 57 THEN c - 48
    ELSE IF c >= 97 /\ c <= 122 THEN c - 87
    ELSE IF c >= 65 /\ c <= 90 THEN c - 55
    ELSE 36

RECURSIVE DigitPrefix(_, _)
DigitPrefix(s, radix) ==
    IF s = <<>> \/ DigitValue(Head(s)) >= radix THEN <<>>
    ELSE <<Head(s)>> \o DigitPrefix(Tail(s), radix)

RECURSIVE DigitsValue(_, _)
DigitsValue(ds, radix) ==
    IF ds = <<>> THEN 0
    ELSE DigitsValue(SubSeq(ds, 1, Len(ds) - 1), radix) * radix + DigitValue(ds[Len(ds)])

RECURSIVE TrimLeft(_)
TrimLeft(s) == IF s # <<>> /\ IsSpace(Head(s)) THEN TrimLeft(Tail(s)) ELSE s

\* parseInt for a radix other than 16: leading white space, a sign, then the longest
\* run of digits of the radix; whatever follows is ignored; no digit gives NaN
parseInt(s, radix) ==
    LET t == TrimLeft(s)
        signed == t # <<>> /\ Head(t) \in {43, 45}
        body == IF signed THEN Tail(t) ELSE t
        ds == DigitPrefix(body, radix)
        v == DigitsValue(ds, radix)
    IN  IF ds = <<>> THEN NaN
        ELSE IF signed /\ Head(t) = 45 THEN Num(0 - v) ELSE Num(v)

RECURSIVE DigitsBits(_, _)
DigitsBits(ds, k) ==
    IF ds = <<>> THEN <<>>
    ELSE [b \in 1..k |-> (DigitValue(ds[Len(ds)]) \div Pow2(b - 1)) % 2]
            \o DigitsBits(SubSeq(ds, 1, Len(ds) - 1), k)

\* BigInt('0o' + digits) for k = 3 and BigInt('0x' + digits) for k = 4: a SyntaxError
\* unless digits is one or more digits of the radix and nothing else
BigIntOfPrefixed(digits, k) ==
    IF digits = <<>> \/ \E i \in 1..Len(digits) : DigitValue(digits[i]) >= Pow2(k)
    THEN [threw |-> TRUE, value |-> BigInt(0)]
    ELSE [threw |-> FALSE, value |-> Trim(FALSE, DigitsBits(digits, k))]

(***************************************************************************)
(* parseOctal, parseHex                                                    *)
(***************************************************************************)
\* parseOctal reading the halfwords in base 10
parseOctalDecimal(str) ==
    LET cleaned == StripSpace(str)
    IN  IF includes(cleaned, 44)
        THEN LET parts == split(cleaned, 44)
             IN  [threw |-> FALSE,
                  value |-> makeWord(parseInt(parts[1], 10), parseInt(parts[2], 10))]
        ELSE LET n == BigIntOfPrefixed(cleaned, 3)
             IN  [threw |-> n.threw, value |-> BigAnd(n.value, WORD_MASK)]

parseOctal(str) ==
    LET cleaned == StripSpace(str)
    IN  IF includes(cleaned, 44)
        THEN LET parts == split(cleaned, 44)
             IN  [threw |-> FALSE,
                  value |-> makeWord(parseInt(parts[1], 8), parseInt(parts[2], 8))]
        ELSE LET n == BigIntOfPrefixed(cleaned, 3)
             IN  [threw |-> n.threw, value |-> BigAnd(n.value, WORD_MASK)]

parseHex(str) ==
    LET n == BigIntOfPrefixed(StripSpace(str), 4)
    IN  [threw |-> n.threw, value |-> BigAnd(n.value, WORD_MASK)]

(***************************************************************************)
(* toSixbit, fromSixbit, toAscii7                                          *)
(***************************************************************************)
\* toSixbit taking the fields from the low end
toSixbitReversed(word) ==
    [i \in 1..6 |-> Number(BigAnd(BigShr(word, (i - 1) * 6), LowMask(6))) + 32]

toSixbit(word) ==
    [i \in 1..6 |-> Number(BigAnd(BigShr(word, (5 - (i - 1)) * 6), LowMask(6))) + 32]

\* the loop of fromSixbit from index i on, word being what is packed so far
RECURSIVE fromSixbitFrom(_, _, _)
fromSixbitFrom(str, i, word) ==
    IF i >= Min(6, Len(str)) THEN word
    ELSE fromSixbitFrom(str, i + 1,
            BigOr(word, BigShl(BigInt(Int32And(Num(str[i + 1] - 32), 63)), (5 - i) * 6)))

fromSixbit(str) == fromSixbitFrom(str, 0, BigInt(0))

\* toAscii7 taking the fields one bit lower
toAscii7Shift28(word) ==
    [i \in 1..5 |->
        LET char == Number(BigAnd(BigShr(word, 28 - (i - 1) * 7), LowMask(7)))
        IN  IF char >= 32 /\ char < 127 THEN char ELSE 46]

toAscii7(word) ==
    [i \in 1..5 |->
        LET char == Number(BigAnd(BigShr(word, 29 - (i - 1) * 7), LowMask(7)))
        IN  IF char >= 32 /\ char < 127 THEN char ELSE 46]

(***************************************************************************)
(* The instruction decode of WordDetails.  lh is below 2^18, so lh >> k is  *)
(* the quotient by 2^k and & masks the low bits.                           *)
(***************************************************************************)
\* WordDetails with an accumulator field of three bits
WordDetailsAc3(word) ==
    LET lh == leftHalf(word)
        rh == rightHalf(word)
    IN  [opcode |-> Int32And(Num(lh \div Pow2(9)), 511),
         ac |-> Int32And(Num(lh \div Pow2(5)), 7),
         indirect |-> Int32And(Num(lh \div Pow2(4)), 1),
         index |-> Int32And(Num(lh), 15),
         address |-> rh]

WordDetails(word) ==
    LET lh == leftHalf(word)
        rh == rightHalf(word)
    IN  [opcode |-> Int32And(Num(lh \div Pow2(9)), 511),
         ac |-> Int32And(Num(lh \div Pow2(5)), 15),
         indirect |-> Int32And(Num(lh \div Pow2(4)), 1),
         index |-> Int32And(Num(lh), 15),
         address |-> rh]

(***************************************************************************)
(* DISK_TYPES, sectorToCHS, chsToSector                                    *)
(***************************************************************************)
DISK_TYPES ==
    << [name |-> "RP04", cylinders |-> 411, heads |-> 19, sectorsPerTrack |-> 20,
        wordsPerSector |-> 128],
       [name |-> "RP06", cylinders |-> 815, heads |-> 19, sectorsPerTrack |-> 20,
        wordsPerSector |-> 128],
       [name |-> "RP07", cylinders |-> 630, heads |-> 32, sectorsPerTrack |-> 43,
        wordsPerSector |-> 128],
       [name |-> "RM03", cylinders |-> 823, heads |-> 5, sectorsPerTrack |-> 32,
        wordsPerSector |-> 128],
       [name |-> "RM80", cylinders |-> 559, heads |-> 14, sectorsPerTrack |-> 31,
        wordsPerSector |-> 128] >>

totalSectors(g) == g.cylinders * g.heads * g.sectorsPerTrack

totalBytes(g) == totalSectors(g) * g.wordsPerSector * BYTES_PER_SIMH_WORD

\* a % b of JavaScript on integers, b > 0: the sign of the dividend
JsRem(a, b) == IF a >= 0 THEN a % b ELSE 0 - ((0 - a) % b)

\* Math.floor(a / b) on integers, b > 0
FloorDiv(a, b) == a \div b

sectorToCHS(sector, geometry) ==
    LET sectorsPerCylinder == geometry.heads * geometry.sectorsPerTrack
        cylinder == FloorDiv(sector, sectorsPerCylinder)
        remaining == JsRem(sector, sectorsPerCylinder)
        head == FloorDiv(remaining, geometry.sectorsPerTrack)
        sectorInTrack == JsRem(remaining, geometry.sectorsPerTrack)
    IN  [cylinder |-> cylinder, head |-> head, sector |-> sectorInTrack]

\* chsToSector with heads and sectorsPerTrack exchanged
chsToSectorSwapped(cylinder, head, sector, geometry) ==
    (cylinder * geometry.sectorsPerTrack + head) * geometry.heads + sector

chsToSector(cylinder, head, sector, geometry) ==
    (cylinder * geometry.heads + head) * geometry.sectorsPerTrack + sector

Abs(n) == IF n < 0 THEN 0 - n ELSE n

\* detectDiskType with the tolerance itself still accepted
detectDiskTypeInclusive(fileSize) ==
    LET near == {k \in 1..Len(DISK_TYPES) :
                    Abs(fileSize - totalBytes(DISK_TYPES[k])) <= BYTES_PER_SECTOR * 100}
    IN  IF near = {} THEN 0 ELSE CHOOSE k \in near : \A j \in near : k <= j

\* the entries of DISK_TYPES are tried in the order of the table, from entry k on; the
\* result is the index of the entry returned, 0 for null
RECURSIVE detectDiskTypeFrom(_, _)
detectDiskTypeFrom(fileSize, k) ==
    IF k > Len(DISK_TYPES) THEN 0
    ELSE IF Abs(fileSize - totalBytes(DISK_TYPES[k])) < BYTES_PER_SECTOR * 100 THEN k
    ELSE detectDiskTypeFrom(fileSize, k + 1)

detectDiskType(fileSize) == detectDiskTypeFrom(fileSize, 1)

(***************************************************************************)
(* The disk image.  A DiskImage is the record of its name, buffer,         *)
(* geometry (an index into DISK_TYPES, 0 for null) and modified flag.  An  *)
(* operation that can throw returns the error it threw ("" for none)       *)
(* together with its value; one that mutates the image returns the image   *)
(* as it leaves it, also when it throws.                                   *)
(***************************************************************************)
OutOfBounds == "Word offset is out of bounds"
LengthMismatch == "Sector must contain exactly 128 words"
RangeError == "RangeError"

toLowerCase(s) == [i \in 1..Len(s) |-> IF s[i] >= 65 /\ s[i] <= 90 THEN s[i] + 32 ELSE s[i]]

\* the keys of DISK_TYPES, in the order of the table: "RP04", "RP06", "RP07", "RM03", "RM80"
TypeKeys ==
    << <<82, 80, 48, 52>>, <<82, 80, 48, 54>>, <<82, 80, 48, 55>>,
       <<82, 77, 48, 51>>, <<82, 77, 56, 48>> >>

\* a File is its name and its bytes
loadDiskImage(file) ==
    [name |-> file.name,
     buffer |-> file.bytes,
     geometry |-> detectDiskType(file.bytes.byteLength),
     modified |-> FALSE]

\* createEmptyDisk that leaves the new image unmodified
createEmptyDiskClean(type) ==
    [name |-> <<110, 101, 119, 95>> \o toLowerCase(TypeKeys[type]) \o <<46, 100, 115, 107>>,
     buffer |-> NewArrayBuffer(totalBytes(DISK_TYPES[type])),
     geometry |-> type,
     modified |-> FALSE]

\* the name is `new_${type.toLowerCase()}.dsk`
createEmptyDisk(type) ==
    [name |-> <<110, 101, 119, 95>> \o toLowerCase(TypeKeys[type]) \o <<46, 100, 115, 107>>,
     buffer |-> NewArrayBuffer(totalBytes(DISK_TYPES[type])),
     geometry |-> type,
     modified |-> TRUE]

getTotalWords(disk) == FloorDiv(disk.buffer.byteLength, BYTES_PER_SIMH_WORD)

getTotalSectors(disk) == FloorDiv(disk.buffer.byteLength, BYTES_PER_SECTOR)

\* getWord that also refuses the last 8 bytes of the buffer
getWordInclusive(disk, wordOffset) ==
    LET byteOffset == wordOffset * BYTES_PER_SIMH_WORD
    IN  IF byteOffset + BYTES_PER_SIMH_WORD >= disk.buffer.byteLength
        THEN [error |-> OutOfBounds, value |-> BigInt(0)]
        ELSE LET r == readWord(disk.buffer, byteOffset)
             IN  [error |-> IF r.threw THEN RangeError ELSE "", value |-> r.value]

getWord(disk, wordOffset) ==
    LET byteOffset == wordOffset * BYTES_PER_SIMH_WORD
    IN  IF byteOffset + BYTES_PER_SIMH_WORD > disk.buffer.byteLength
        THEN [error |-> OutOfBounds, value |-> BigInt(0)]
        ELSE LET r == readWord(disk.buffer, byteOffset)
             IN  [error |-> IF r.threw THEN RangeError ELSE "", value |-> r.value]

\* setWord that sets the modified flag before it checks the bounds
setWordEager(disk, wordOffset, value) ==
    LET byteOffset == wordOffset * BYTES_PER_SIMH_WORD
    IN  IF byteOffset + BYTES_PER_SIMH_WORD > disk.buffer.byteLength
        THEN [error |-> OutOfBounds, disk |-> [disk EXCEPT !.modified = TRUE]]
        ELSE LET r == writeWord(disk.buffer, byteOffset, value)
             IN  [error |-> IF r.threw THEN RangeError ELSE "",
                  disk |-> [disk EXCEPT !.buffer = r.buffer, !.modified = TRUE]]

\* setWord that leaves the modified flag alone
setWordSilent(disk, wordOffset, value) ==
    LET byteOffset == wordOffset * BYTES_PER_SIMH_WORD
    IN  IF byteOffset + BYTES_PER_SIMH_WORD > disk.buffer.byteLength
        THEN [error |-> OutOfBounds, disk |-> disk]
        ELSE LET r == writeWord(disk.buffer, byteOffset, value)
             IN  [error |-> IF r.threw THEN RangeError ELSE "",
                  disk |-> [disk EXCEPT !.buffer = r.buffer]]

setWord(disk, wordOffset, value) ==
    LET byteOffset == wordOffset * BYTES_PER_SIMH_WORD
    IN  IF byteOffset + BYTES_PER_SIMH_WORD > disk.buffer.byteLength
        THEN [error |-> OutOfBounds, disk |-> disk]
        ELSE LET r == writeWord(disk.buffer, byteOffset, value)
             IN  IF r.threw
                 THEN [error |-> RangeError, disk |-> [disk EXCEPT !.buffer = r.buffer]]
                 ELSE [error |-> "",
                       disk |-> [disk EXCEPT !.buffer = r.buffer, !.modified = TRUE]]

\* The loop of getSector for i from lo up to hi - 1, in that order, stopping at the first
\* getWord that throws; words are the words pushed.  The iterations are run as the first
\* half of the range and then the second half, which keeps the evaluation shallow.
RECURSIVE getSectorFrom(_, _, _, _)
getSectorStep(r) ==
    [error |-> r.error, words |-> IF r.error # "" THEN <<>> ELSE <<r.value>>]

getSectorJoin(first, rest) ==
    IF rest.error # "" THEN rest ELSE [error |-> "", words |-> first.words \o rest.words]

getSectorRest(first, disk, startWord, mid, hi) ==
    IF first.error # "" THEN first
    ELSE getSectorJoin(first, getSectorFrom(disk, startWord, mid, hi))

getSectorFrom(disk, startWord, lo, hi) ==
    IF lo >= hi THEN [error |-> "", words |-> <<>>]
    ELSE IF hi = lo + 1 THEN getSectorStep(getWord(disk, startWord + lo))
    ELSE LET mid == (lo + hi) \div 2
         IN  getSectorRest(getSectorFrom(disk, startWord, lo, mid), disk, startWord, mid, hi)

\* getSector that starts one word late
getSectorLate(disk, sectorNumber) ==
    getSectorFrom(disk, sectorNumber * WORDS_PER_SECTOR + 1, 0, WORDS_PER_SECTOR)

getSector(disk, sectorNumber) ==
    getSectorFrom(disk, sectorNumber * WORDS_PER_SECTOR, 0, WORDS_PER_SECTOR)

\* The loop of setSector for i from lo up to hi - 1, in that order, stopping at the first
\* setWord that throws; done counts the words setWord has stored.  The iterations are run
\* as the first half of the range and then, on what it left, the second half, which keeps
\* the evaluation shallow.
RECURSIVE setSectorFrom(_, _, _, _, _)
setSectorRest(first, startWord, words, mid, hi) ==
    IF first.error # "" THEN first
    ELSE setSectorFrom(first.disk, startWord, words, mid, hi)

setSectorStep(r, i) ==
    [error |-> r.error, disk |-> r.disk, done |-> IF r.error # "" THEN i ELSE i + 1]

setSectorFrom(disk, startWord, words, lo, hi) ==
    IF lo >= hi THEN [error |-> "", disk |-> disk, done |-> lo]
    ELSE IF hi = lo + 1 THEN setSectorStep(setWord(disk, startWord + lo, words[lo + 1]), lo)
    ELSE LET mid == (lo + hi) \div 2
         IN  setSectorRest(setSectorFrom(disk, startWord, words, lo, mid), startWord, words, mid, hi)

\* setSector without the check of the length: it stores the words it is given, 128 at most
setSectorUnchecked(disk, sectorNumber, words) ==
    setSectorFrom(disk, sectorNumber * WORDS_PER_SECTOR, words, 0, Min(Len(words), WORDS_PER_SECTOR))

setSector(disk, sectorNumber, words) ==
    IF Len(words) # WORDS_PER_SECTOR
    THEN [error |-> LengthMismatch, disk |-> disk, done |-> 0]
    ELSE setSectorFrom(disk, sectorNumber * WORDS_PER_SECTOR, words, 0, WORDS_PER_SECTOR)

\* The loop of getWords for i from lo up to hi - 1, in that order, stopping at the first i
\* for which i < count && startWord + i < maxWords is false (it is then false for every
\* later i) or getWord throws.  The iterations are run as the first half of the range and
\* then the second half, which keeps the evaluation shallow.
RECURSIVE getWordsFrom(_, _, _, _, _, _)
getWordsRest(first, disk, startWord, count, maxWords, mid, hi) ==
    IF first.error # "" THEN first
    ELSE getSectorJoin(first, getWordsFrom(disk, startWord, count, maxWords, mid, hi))

getWordsFrom(disk, startWord, count, maxWords, lo, hi) ==
    IF lo >= hi \/ ~(lo < count /\ startWord + lo < maxWords) THEN [error |-> "", words |-> <<>>]
    ELSE IF hi = lo + 1 THEN getSectorStep(getWord(disk, startWord + lo))
    ELSE LET mid == (lo + hi) \div 2
         IN  getWordsRest(getWordsFrom(disk, startWord, count, maxWords, lo, mid),
                          disk, startWord, count, maxWords, mid, hi)

\* getWords that does not stop at the end of the buffer
getWordsStrict(disk, startWord, count) ==
    getWordsFrom(disk, startWord, count, startWord + count, 0, count)

getWords(disk, startWord, count) ==
    getWordsFrom(disk, startWord, count, getTotalWords(disk), 0, count)

\* the inner loop of searchWords at position i, from pattern word j on:
\* "match", "differ", or the error getWord threw
RECURSIVE matchFrom(_, _, _, _)
matchFrom(disk, pattern, i, j) ==
    IF j >= Len(pattern) THEN "match"
    ELSE LET r == getWord(disk, i + j)
         IN  IF r.error # "" THEN r.error
             ELSE IF r.value # pattern[j + 1] THEN "differ"
             ELSE matchFrom(disk, pattern, i, j + 1)

\* the outer loop of searchWords from position i on
RECURSIVE searchWordsFrom(_, _, _, _)
searchWordsFrom(disk, pattern, totalWords, i) ==
    IF ~(i <= totalWords - Len(pattern)) THEN [error |-> "", index |-> 0 - 1]
    ELSE LET m == matchFrom(disk, pattern, i, 0)
         IN  IF m = "match" THEN [error |-> "", index |-> i]
             ELSE IF m = "differ" THEN searchWordsFrom(disk, pattern, totalWords, i + 1)
             ELSE [error |-> m, index |-> 0]

\* searchWords returning the last match instead of the first
RECURSIVE searchWordsLastFrom(_, _, _, _)
searchWordsLastFrom(disk, pattern, startOffset, i) ==
    IF i < startOffset THEN [error |-> "", index |-> 0 - 1]
    ELSE IF matchFrom(disk, pattern, i, 0) = "match" THEN [error |-> "", index |-> i]
    ELSE searchWordsLastFrom(disk, pattern, startOffset, i - 1)

searchWordsLast(disk, pattern, startOffset) ==
    searchWordsLastFrom(disk, pattern, startOffset, getTotalWords(disk) - Len(pattern))

searchWords(disk, pattern, startOffset) ==
    searchWordsFrom(disk, pattern, getTotalWords(disk), startOffset)

\* the Blob made of the buffer, and the file name of the download
downloadDisk(disk) == [bytes |-> disk.buffer, download |-> disk.name]

(***************************************************************************)
(* The values the operations are tried on.                                 *)
(***************************************************************************)
\* the word with left halfword l and right halfword r
Word36(l, r) == BigOr(BigShl(BigInt(l), 18), BigInt(r))

\* halfwords: 0, 1, 0o123456, 2^17, 0o777776, 0o777777
HalfSamples == {0, 1, 42798, 131072, 262142, 262143}

\* words in range: every pair of sample halfwords, every single bit, and "HELLO" in ASCII-7
\* with its unused bit clear and set
WordSamples ==
    {Word36(l, r) : l, r \in HalfSamples}
        \cup {BigShl(BigInt(1), k) : k \in 0..(BITS_PER_WORD - 1)}
        \cup {Word36(148569, 150686), Word36(148569, 150687)}

\* integers that are no Word36: 2^36, 2^36 + 2^35 + 1, 2^64 + 3, -1, -2, -2^36
OutOfRange ==
    { BigShl(BigInt(1), 36),
      BigOr(BigShl(BigInt(3), 35), BigInt(1)),
      BigOr(BigShl(BigInt(1), 64), BigInt(3)),
      BigInt(-1), BigInt(-2), BigShl(BigInt(-1), 36) }

\* Numbers given to makeWord: halfwords, integers outside 18 bits, NaN
NumberSamples == {Num(n) : n \in HalfSamples \cup {-1, -262145, 262144, 262149}} \cup {NaN}

\* all strings over an alphabet up to a length
Strings(alphabet, n) == UNION {[1..k -> alphabet] : k \in 0..n}

\* typed into parseOctal: '1', '7', '8', ',', ' ', '-'
OctalTexts == Strings({49, 55, 56, 44, 32, 45}, MaxTextLen)

\* typed into parseHex: '1', 'F', 'a', 'g', ' '
HexTexts == Strings({49, 70, 97, 103, 32}, MaxTextLen)

\* given to fromSixbit: short strings with codes below 32, inside [32, 96) and above; the
\* 6-character strings of '!', 'A' and '_'; "abcdef"; "ABCDEFGH"
SixbitTexts ==
    Strings({10, 32, 65, 95, 96, 200}, 2)
        \cup [1..6 -> {33, 65, 95}]
        \cup { <<32, 32, 32, 32, 32, 32>>, <<65, 66, 67, 49, 50, 51>>,
               <<97, 98, 99, 100, 101, 102>>, <<65, 66, 67, 68, 69, 70, 71, 72>> }

\* the bytes a file puts in slot i: all ones, bits 36-63 only, 0x0123456789ABCDEF, zero
SlotPattern(i) ==
    CASE i % 4 = 0 -> <<255, 255, 255, 255, 255, 255, 255, 255>>
      [] i % 4 = 1 -> <<0, 0, 0, 0, 16, 0, 0, 128>>
      [] i % 4 = 2 -> <<239, 205, 171, 137, 103, 69, 35, 1>>
      [] OTHER -> <<0, 0, 0, 0, 0, 0, 0, 0>>

RECURSIVE FileBytes(_)
FileBytes(n) == IF n = 0 THEN <<>> ELSE FileBytes(n - 1) \o SlotPattern(n - 1)

\* file sizes: around every geometry's totalBytes, at the tolerance and one byte to either
\* side of it, and the sizes of files that are no disk pack
SizeSamples ==
    {totalBytes(DISK_TYPES[k]) + d :
        k \in 1..Len(DISK_TYPES),
        d \in {-102401, -102400, -102399, -1, 0, 1, 102399, 102400, 102401}}
        \cup {0, 20, 2568}

\* the words a search looks for
P1 == Word36(1, 2)
P2 == Word36(3, 4)

\* the buffer of n bytes, zero but for the words given as <<index, word>> pairs
RECURSIVE BufferWith(_, _)
BufferWith(n, entries) ==
    IF entries = <<>> THEN NewArrayBuffer(n)
    ELSE writeWord(BufferWith(n, Tail(entries)),
                   entries[1][1] * BYTES_PER_SIMH_WORD, entries[1][2]).buffer

\* buf with bytes set at the offsets of the function extra
WithBytes(buf, extra) == [buf EXCEPT !.bytes = extra @@ buf.bytes]

\* the files opened: an empty one; 20 bytes (two slots with bits 36-63 set and half a slot);
\* 104 bytes, 13 words, with P1 P2 at words 5 and 10, P1 P1 at word 8 and P2 last; 2568 bytes
\* (two sectors and 65 words) with bit 63 set in word 5's slot and P1 P2 P1 last; an RM03
\* pack cut two sectors short, with 65 words and four bytes more, and P1 P2 P1 in its last
\* three words
Files ==
    { [name |-> <<97>>, bytes |-> NewArrayBuffer(0)],
      [name |-> <<98>>, bytes |-> ArrayBuffer(FileBytes(2) \o <<1, 2, 3, 4>>)],
      [name |-> <<99>>,
       bytes |-> BufferWith(104, << <<5, P1>>, <<6, P2>>, <<8, P1>>, <<9, P1>>, <<10, P1>>,
                                    <<11, P2>>, <<12, P2>> >>)],
      [name |-> <<100>>,
       bytes |-> WithBytes(BufferWith(2568, << <<0, Word36(262143, 262143)>>, <<5, P1>>,
                                               <<318, P1>>, <<319, P2>>, <<320, P1>> >>),
                           47 :> 128)],
      [name |-> <<101>>,
       bytes |-> LET n == totalBytes(DISK_TYPES[4]) - 2 * BYTES_PER_SECTOR + 65 * BYTES_PER_SIMH_WORD
                     w == n \div BYTES_PER_SIMH_WORD
                 IN  WithBytes(BufferWith(n + 4, << <<w - 3, P1>>, <<w - 2, P2>>, <<w - 1, P1>> >>),
                               (n :> 1) @@ (n + 3 :> 4))] }

\* setWord calls, as <<wordOffset, value>>, on an image of n words: a Word36 into the last
\* word, -2 (no Word36) into the first, a Word36 at the first index past the end
SetWordSamples(n) ==
    { <<n - 1, Word36(174762, 87381)>>, <<0, BigInt(0 - 2)>>, <<n, Word36(174762, 87381)>> }

\* sectors stored by setSector: 128 words (a Word36 first, then -1, 2^36 + 5, P1, P2, zeros,
\* and a last word), and the same with one word too few and one too many
SectorWords(n) ==
    [i \in 1..n |->
        CASE i = 1 -> Word36(42798, 1)
          [] i = 2 -> BigInt(0 - 1)
          [] i = 3 -> BigOr(BigShl(BigInt(1), 36), BigInt(5))
          [] i = 4 -> P1
          [] i = 5 -> P2
          [] i = WORDS_PER_SECTOR -> Word36(1, 0)
          [] OTHER -> BigInt(0)]

\* setSector calls, as <<sectorNumber, words>>, on an image of n whole sectors: 128 words
\* into the first sector and into the sector past the last whole one (of which the image
\* may hold a part), one word too few there, one word too many into the first sector
SetSectorSamples(n) ==
    { <<0, SectorWords(WORDS_PER_SECTOR)>>, <<n, SectorWords(WORDS_PER_SECTOR)>>,
      <<n, SectorWords(WORDS_PER_SECTOR - 1)>>, <<0, SectorWords(WORDS_PER_SECTOR + 1)>> }

\* searches, as <<pattern, startOffset>>, in an image of n words: from the start, from
\* behind the first match, near the end, with a pattern longer than what is left, with a
\* pattern that is nowhere, from the end and from past it, and with no pattern
SearchSamples(n) ==
    { << <<P1, P2>>, 0 >>, << <<P1, P2>>, 6 >>, << <<P1, P2>>, 11 >>,
      << <<P2>>, n - 3 >>, << <<P1, P2>>, n - 1 >>, << <<P2, P1, BigInt(0)>>, n - 3 >>,
      << <<BigInt(0 - 1)>>, 0 >>, << <<BigInt(0)>>, 0 >>,
      << <<P1>>, n >>, << <<P1>>, n + 1 >>, << <<>>, 1 >> }

\* the byte offsets of the slots, and the offset just past the last one
SlotOffsets == {i * BYTES_PER_SIMH_WORD : i \in 0..(NumSlots - 1)}
Offsets == SlotOffsets \cup {NumSlots * BYTES_PER_SIMH_WORD}

(***************************************************************************)
(* The state after construction: the buffer holds a file's bytes and       *)
(* nothing has run.  Init holds the arguments of the calls to come: a      *)
(* word, a pair of Numbers or a string.                                    *)
(***************************************************************************)
NoCHS == [cylinder |-> 0, head |-> 0, sector |-> 0]
NoPair == <<0, 0>>

NoResult == retWord = BigInt(0) /\ retPair = NoPair /\ retStr = <<>> /\ err = ""

\* no image has been made
NoImage ==
    /\ diskName = <<>>
    /\ diskGeometry = 0
    /\ diskModified = FALSE
    /\ origin = "none"
    /\ loaded = NewArrayBuffer(0)
    /\ written = <<>>
    /\ writes = 0
    /\ exported = "none"

\* App and HexView as useState initialises them; nothing is rendered or decoded yet
NoApp ==
    /\ displayMode = "octal"
    /\ viewStartWord = 0
    /\ selectedWord = <<>>
    /\ rowCount = 16
    /\ viewWords = <<>>
    /\ editingWord = <<>>
    /\ editValue = <<>>
    /\ modifiedCounter = 0
    /\ rendered = ""
    /\ events = 0
    /\ opens = 0
    /\ decoded = WordDetails(BigInt(0))

\* no image operation has run
NoImageCall ==
    /\ argIndex = 0
    /\ argCount = 0
    /\ argWords = <<>>
    /\ retWords = <<>>
    /\ retIndex = 0

Fresh ==
    /\ buffer = ArrayBuffer(FileBytes(NumSlots))
    /\ NoImage
    /\ NoImageCall
    /\ NoApp
    /\ retGeometry = 0
    /\ op = "none"
    /\ off = 0
    /\ NoResult
    /\ argGeometry = 1
    /\ argSector = 0
    /\ retCHS = NoCHS

Init ==
    /\ Fresh
    /\ \/ argWord \in WordSamples \cup OutOfRange /\ argHalves = <<Num(0), Num(0)>> /\ argText = <<>>
            /\ argSize = 0
       \/ argWord = BigInt(0) /\ argHalves \in NumberSamples \X NumberSamples /\ argText = <<>>
            /\ argSize = 0
       \/ argWord = BigInt(0) /\ argHalves = <<Num(0), Num(0)>>
            /\ argText \in OctalTexts \cup HexTexts \cup SixbitTexts
            /\ argSize = 0
       \/ argWord = BigInt(0) /\ argHalves = <<Num(0), Num(0)>> /\ argText = <<>>
            /\ argSize \in SizeSamples

\* a call: its name and offset, and the results it leaves; the arguments stay
Call(name, o, v, p, s, e) ==
    /\ op' = name
    /\ off' = o
    /\ retWord' = v
    /\ retPair' = p
    /\ retStr' = s
    /\ err' = e
    /\ UNCHANGED <<argWord, argHalves, argText, argGeometry, argSector, retCHS>>
    /\ UNCHANGED <<argSize, retGeometry, imageVars, imageRegs, decoded, appVars>>

(***************************************************************************)
(* The slot operations, on the buffer as the calls before left it.         *)
(***************************************************************************)
ReadWord ==
    \E o \in Offsets :
        LET r == readWord(buffer, o)
        IN  /\ Call("readWord", o, r.value, NoPair, <<>>,
                    IF r.threw THEN "RangeError" ELSE "")
            /\ UNCHANGED buffer

WriteWord ==
    \E o \in Offsets :
        LET r == writeWord(buffer, o, argWord)
        IN  /\ Call("writeWord", o, BigInt(0), NoPair, <<>>,
                    IF r.threw THEN "RangeError" ELSE "")
            /\ buffer' = r.buffer

(***************************************************************************)
(* The pure conversions, each applied once to the arguments held.          *)
(***************************************************************************)
Apply(name, v, p, s, e) == op = "none" /\ Call(name, 0, v, p, s, e) /\ UNCHANGED buffer

MakeWord == Apply("makeWord", makeWord(argHalves[1], argHalves[2]), NoPair, <<>>, "")

SplitHalves == Apply("splitHalves", BigInt(0), <<leftHalf(argWord), rightHalf(argWord)>>, <<>>, "")

FormatOctal == Apply("formatOctal", BigInt(0), NoPair, formatOctal(argWord), "")

FormatOctalFull == Apply("formatOctalFull", BigInt(0), NoPair, formatOctalFull(argWord), "")

FormatHex == Apply("formatHex", BigInt(0), NoPair, formatHex(argWord), "")

FormatBinary == Apply("formatBinary", BigInt(0), NoPair, formatBinary(argWord), "")

ParseOctal ==
    LET r == parseOctal(argText)
    IN  Apply("parseOctal", r.value, NoPair, <<>>, IF r.threw THEN "SyntaxError" ELSE "")

ParseHex ==
    LET r == parseHex(argText)
    IN  Apply("parseHex", r.value, NoPair, <<>>, IF r.threw THEN "SyntaxError" ELSE "")

ToSixbit == Apply("toSixbit", BigInt(0), NoPair, toSixbit(argWord), "")

FromSixbit == Apply("fromSixbit", fromSixbit(argText), NoPair, <<>>, "")

ToAscii7 == Apply("toAscii7", BigInt(0), NoPair, toAscii7(argWord), "")

ShowWordDetails ==
    /\ op = "none"
    /\ op' = "WordDetails"
    /\ decoded' = WordDetails(argWord)
    /\ UNCHANGED <<buffer, argWord, argHalves, argText, argGeometry, argSector, off, retWord,
                   retPair, retStr, retCHS, err, argSize, retGeometry, imageVars, imageRegs,
                   appVars>>

DetectDiskType ==
    /\ op = "none"
    /\ op' = "detectDiskType"
    /\ retGeometry' = detectDiskType(argSize)
    /\ UNCHANGED <<buffer, argWord, argHalves, argText, argGeometry, argSector, off, retWord,
                   retPair, retStr, retCHS, err, argSize, imageVars, imageRegs, decoded,
                   appVars>>

(***************************************************************************)
(* The address translation: a geometry is walked one sector at a time,     *)
(* from sector -1 (below the disk) to totalSectors (past its end).         *)
(***************************************************************************)
SectorToCHS ==
    \E g \in 1..Len(DISK_TYPES) :
        LET n == IF g = argGeometry /\ op = "sectorToCHS" THEN argSector + 1 ELSE 0 - 1
        IN  /\ n <= totalSectors(DISK_TYPES[g])
            /\ op' = "sectorToCHS"
            /\ argGeometry' = g
            /\ argSector' = n
            /\ retCHS' = sectorToCHS(n, DISK_TYPES[g])
            /\ UNCHANGED <<buffer, argWord, argHalves, argText, off, retWord, retPair, retStr, err>>
            /\ UNCHANGED <<argSize, retGeometry, imageVars, imageRegs, decoded, appVars>>

(***************************************************************************)
(* The disk image.  One DiskImage object is followed from the call that    *)
(* makes it (loadDiskImage or createEmptyDisk, each returning a new        *)
(* object) through the writes made on it.  A read leaves the image as it   *)
(* is, so the images reached are the same whether or not reads come        *)
(* between the writes: a behaviour ends with the read it observes.         *)
(***************************************************************************)
Image == [name |-> diskName, buffer |-> buffer, geometry |-> diskGeometry, modified |-> diskModified]

SetImage(d) ==
    /\ diskName' = d.name
    /\ buffer' = d.buffer
    /\ diskGeometry' = d.geometry
    /\ diskModified' = d.modified

\* a call on the image: its name and arguments, and the results it leaves
ImageCall(fn, index, count, words, value, rWord, rWords, rIndex, e) ==
    /\ op' = fn
    /\ argIndex' = index
    /\ argCount' = count
    /\ argWords' = words
    /\ argWord' = value
    /\ retWord' = rWord
    /\ retWords' = rWords
    /\ retIndex' = rIndex
    /\ err' = e
    /\ UNCHANGED <<argHalves, argText, argGeometry, argSector, off, retPair, retStr, retCHS,
                   argSize, retGeometry, decoded, appVars>>

Reads ==
    {"getTotalWords", "getTotalSectors", "getWord", "getSector", "getWords", "searchWords",
     "downloadDisk"}

\* the image exists and the behaviour has not ended with a read
Live == origin # "none" /\ op \notin Reads

\* word indexes and sector numbers around the ends of the image
WordIndexes == {0, 1, getTotalWords(Image) - 1, getTotalWords(Image), getTotalWords(Image) + 1}
SectorNumbers == {0, getTotalSectors(Image)}

LoadDiskImage ==
    /\ origin = "none"
    /\ \E file \in Files :
        \E d \in {loadDiskImage(file)} :
            /\ SetImage(d)
            /\ loaded' = d.buffer
    /\ origin' = "loadDiskImage"
    /\ ImageCall("loadDiskImage", 0, 0, <<>>, BigInt(0), BigInt(0), <<>>, 0, "")
    /\ UNCHANGED <<written, writes, exported>>

CreateEmptyDisk ==
    /\ origin = "none"
    /\ \E type \in 1..Len(DISK_TYPES) :
        \E d \in {createEmptyDisk(type)} :
            /\ SetImage(d)
            /\ loaded' = d.buffer
            /\ ImageCall("createEmptyDisk", type, 0, <<>>, BigInt(0), BigInt(0), <<>>, 0, "")
    /\ origin' = "createEmptyDisk"
    /\ UNCHANGED <<written, writes, exported>>

GetTotalWords ==
    /\ Live
    /\ ImageCall("getTotalWords", 0, 0, <<>>, BigInt(0), BigInt(0), <<>>, getTotalWords(Image), "")
    /\ UNCHANGED <<buffer, imageVars>>

GetTotalSectors ==
    /\ Live
    /\ ImageCall("getTotalSectors", 0, 0, <<>>, BigInt(0), BigInt(0), <<>>, getTotalSectors(Image),
                 "")
    /\ UNCHANGED <<buffer, imageVars>>

\* getWord, were it to store the masked word it decoded back into the slot
GetWordNormalising ==
    /\ Live
    /\ \E i \in WordIndexes :
        \E r \in {getWord(Image, i)} :
            /\ ImageCall("getWord", i, 0, <<>>, BigInt(0), r.value, <<>>, 0, r.error)
            /\ SetImage(IF r.error = "" THEN setWord(Image, i, r.value).disk ELSE Image)
    /\ UNCHANGED <<origin, loaded, written, writes, exported>>

GetWord ==
    /\ Live
    /\ \E i \in WordIndexes :
        \E r \in {getWord(Image, i)} :
            ImageCall("getWord", i, 0, <<>>, BigInt(0), r.value, <<>>, 0, r.error)
    /\ UNCHANGED <<buffer, imageVars>>

SetWord ==
    /\ Live
    /\ writes < MaxWrites
    /\ \E call \in SetWordSamples(getTotalWords(Image)) :
        \E i \in {call[1]}, v \in {call[2]}, r \in {setWord(Image, call[1], call[2])} :
            /\ i >= 0
            /\ SetImage(r.disk)
            /\ written' = IF r.error # "" THEN written
                           ELSE [x \in DOMAIN written \cup {i} |-> IF x = i THEN v ELSE written[x]]
            /\ ImageCall("setWord", i, 0, <<>>, v, BigInt(0), <<>>, 0, r.error)
    /\ writes' = writes + 1
    /\ UNCHANGED <<origin, loaded, exported>>

GetSector ==
    /\ Live
    /\ \E n \in SectorNumbers :
        \E r \in {getSector(Image, n)} :
            ImageCall("getSector", n, 0, <<>>, BigInt(0), BigInt(0), r.words, 0, r.error)
    /\ UNCHANGED <<buffer, imageVars>>

SetSector ==
    /\ Live
    /\ writes < MaxWrites
    /\ \E call \in SetSectorSamples(getTotalSectors(Image)) :
        \E n \in {call[1]}, words \in {call[2]}, r \in {setSector(Image, call[1], call[2])} :
            LET first == n * WORDS_PER_SECTOR
                last == first + r.done - 1
            IN  /\ SetImage(r.disk)
                /\ written' = [x \in DOMAIN written \cup first..last |->
                                    IF x >= first /\ x <= last THEN words[x - first + 1]
                                    ELSE written[x]]
                /\ ImageCall("setSector", n, 0, words, BigInt(0), BigInt(0), <<>>, 0, r.error)
    /\ writes' = writes + 1
    /\ UNCHANGED <<origin, loaded, exported>>

GetWords ==
    /\ Live
    /\ \E range \in { <<0, 0>>, <<0, 2>>, <<getTotalWords(Image) - 3, 10>>,
                       <<getTotalWords(Image), 1>>, <<getTotalWords(Image) + 2, 5>> } :
        /\ range[1] >= 0
        /\ \E r \in {getWords(Image, range[1], range[2])} :
                ImageCall("getWords", range[1], range[2], <<>>, BigInt(0), BigInt(0), r.words, 0,
                          r.error)
    /\ UNCHANGED <<buffer, imageVars>>

SearchWords ==
    /\ Live
    /\ \E search \in SearchSamples(getTotalWords(Image)) :
        LET pattern == search[1]
            startOffset == search[2]
        IN  /\ startOffset >= 0
            /\ getTotalWords(Image) - startOffset <= MaxScan
            /\ \E r \in {searchWords(Image, pattern, startOffset)} :
                    ImageCall("searchWords", startOffset, 0, pattern, BigInt(0), BigInt(0), <<>>,
                              r.index, r.error)
    /\ UNCHANGED <<buffer, imageVars>>

DownloadDisk ==
    /\ Live
    /\ exported' = downloadDisk(Image)
    /\ ImageCall("downloadDisk", 0, 0, <<>>, BigInt(0), BigInt(0), <<>>, 0, "")
    /\ UNCHANGED <<buffer, diskName, diskGeometry, diskModified, origin, loaded, written, writes>>

(***************************************************************************)
(* Specifications: the conversions (with readWord on the file's bytes),    *)
(* the slots under writes, the address translation.                        *)
(***************************************************************************)
Next ==
    \/ op = "none" /\ ReadWord
    \/ MakeWord
    \/ SplitHalves
    \/ FormatOctal
    \/ FormatOctalFull
    \/ FormatHex
    \/ FormatBinary
    \/ ParseOctal
    \/ ParseHex
    \/ ToSixbit
    \/ FromSixbit
    \/ ToAscii7
    \/ DetectDiskType
    \/ ShowWordDetails

Spec == Init /\ [][Next]_vars

\* a word is drawn, written to slots and read back, in any order
InitStore ==
    /\ Fresh
    /\ argWord \in WordSamples \cup OutOfRange /\ argHalves = <<Num(0), Num(0)>> /\ argText = <<>>
    /\ argSize = 0

NextStore == ReadWord \/ WriteWord

SpecStore == InitStore /\ [][NextStore]_vars

InitCHS ==
    /\ Fresh
    /\ argWord = BigInt(0) /\ argHalves = <<Num(0), Num(0)>> /\ argText = <<>>
    /\ argSize = 0

NextCHS == SectorToCHS

SpecCHS == InitCHS /\ [][NextCHS]_vars

\* no image yet; one is loaded or created, then written and read
InitDisk ==
    /\ buffer = NewArrayBuffer(0)
    /\ NoImage
    /\ NoImageCall
    /\ NoApp
    /\ op = "none"
    /\ off = 0
    /\ NoResult
    /\ argWord = BigInt(0) /\ argHalves = <<Num(0), Num(0)>> /\ argText = <<>>
    /\ argGeometry = 1 /\ argSector = 0 /\ retCHS = NoCHS
    /\ argSize = 0 /\ retGeometry = 0

NextDisk ==
    \/ LoadDiskImage
    \/ CreateEmptyDisk
    \/ GetWord
    \/ SetWord
    \/ GetSector
    \/ SetSector
    \/ GetWords
    \/ SearchWords
    \/ DownloadDisk
    \/ GetTotalWords
    \/ GetTotalSectors

SpecDisk == InitDisk /\ [][NextDisk]_vars

(***************************************************************************)
(* The editor: App holds the disk, the display mode, the start of the page *)
(* and the selection; Toolbar parses what is typed into its go-to boxes;   *)
(* HexView holds the page (a useMemo of getWords), the word being edited   *)
(* and the edit text.  Every handler ends with the render its setState     *)
(* calls cause.  A render that throws takes the whole tree down (there is  *)
(* no error boundary): no handler runs after it.                           *)
(***************************************************************************)
\* String.prototype.replace with a string pattern: the first occurrence only
replace(s, pattern, replacement) ==
    LET n == Len(pattern)
        hits == {i \in 1..(Len(s) - n + 1) : SubSeq(s, i, i + n - 1) = pattern}
        i == CHOOSE k \in hits : \A j \in hits : k <= j
    IN  IF hits = {} THEN s
        ELSE SubSeq(s, 1, i - 1) \o replacement \o SubSeq(s, i + n, Len(s))

startsWith(s, prefix) == Len(s) >= Len(prefix) /\ SubSeq(s, 1, Len(prefix)) = prefix

formatWord(mode, word) ==
    CASE mode = "octal" -> formatOctal(word)
      [] mode = "octal-full" -> formatOctalFull(word)
      [] mode = "hex" -> formatHex(word)
      [] mode = "sixbit" -> toSixbit(word)
      [] mode = "ascii7" -> toAscii7(word)
      [] OTHER -> formatOctal(word)

\* One render.  App evaluates getWord(disk, selectedWord) for WordDetails when a word is
\* selected; HexView then takes its page from useMemo, which calls getWords again only when
\* one of [disk, startWord, wordsPerPage, disk.modified] differs from the render before.
RenderPage(word, page, memo) ==
    IF word.error # "" THEN [threw |-> word.error, words |-> memo]
    ELSE [threw |-> page.error, words |-> page.words]

Render(disk, start, selected, rows, memo, depsChanged) ==
    RenderPage(IF selected = <<>> THEN [error |-> "", value |-> BigInt(0)]
               ELSE getWord(disk, selected[1]),
               IF depsChanged THEN getWords(disk, start, WORDS_PER_ROW * rows)
               ELSE [error |-> "", words |-> memo],
               memo)

\* the files opened in the editor: the 20-byte and the 2568-byte file of Files, and 24 bytes
\* holding SIXBIT "17    ", ASCII-7 "11111" and 0o777777,000001
AppFiles ==
    {f \in Files : f.name \in {<<98>>, <<100>>}}
        \cup { [name |-> <<102>>,
                bytes |-> BufferWith(24, << <<0, fromSixbit(<<49, 55>>)>>,
                                            <<1, Word36(101142, 45410)>>,
                                            <<2, Word36(262143, 1)>> >>)] }

\* typed into the edit box: "17", ",,x" and "g"
EditTexts == { <<49, 55>>, <<44, 44, 120>>, <<103>> }

\* a handler ran: its name and its string argument; the registers of the calls stay
AppCall(name, text) ==
    /\ op' = name
    /\ argText' = text
    /\ UNCHANGED <<argWord, argHalves, argGeometry, argSector, off, retWord, retPair, retStr,
                   retCHS, err, argSize, retGeometry, imageRegs, decoded>>

\* the setState calls of a handler (the start of the page, the selection, the rows) and the
\* render after them, of the disk d
View(d, newDisk, start, selected, rows) ==
    /\ viewStartWord' = start
    /\ selectedWord' = selected
    /\ rowCount' = rows
    /\ \E r \in {Render(d, start, selected, rows, viewWords,
                        \/ newDisk
                        \/ start # viewStartWord
                        \/ rows # rowCount
                        \/ d.modified # diskModified)} :
            /\ rendered' = r.threw
            /\ viewWords' = r.words

\* HexView is on the screen
Mounted == origin # "none" /\ rendered = ""

\* App.handleLoadDisk and App.handleCreateDisk, with the image d just made
OpenDisk(d, how) ==
    /\ opens' = opens + 1
    /\ SetImage(d)
    /\ loaded' = d.buffer
    /\ origin' = how
    /\ written' = <<>>
    /\ writes' = 0
    /\ events' = 0
    /\ View(d, TRUE, 0, <<>>, rowCount)
    /\ UNCHANGED <<exported, displayMode, editingWord, editValue, modifiedCounter>>

HandleLoadDisk ==
    /\ rendered = ""
    /\ opens < MaxOpens
    /\ \E file \in AppFiles :
        \E d \in {loadDiskImage(file)} :
            /\ OpenDisk(d, "loadDiskImage")
            /\ AppCall("handleLoadDisk", file.name)

HandleCreateDisk ==
    /\ rendered = ""
    /\ opens < MaxOpens
    /\ \E type \in {1, 5} :
        \E d \in {createEmptyDisk(type)} :
            /\ OpenDisk(d, "createEmptyDisk")
            /\ AppCall("handleCreateDisk", TypeKeys[type])

\* a navigation handler: the image and the editor stay
Navigate(name, text, start, selected, rows) ==
    /\ Mounted
    /\ events < MaxEvents
    /\ events' = events + 1
    /\ AppCall(name, text)
    /\ View(Image, FALSE, start, selected, rows)
    /\ UNCHANGED <<buffer, imageVars, displayMode, editingWord, editValue, modifiedCounter,
                   opens>>

\* Toolbar.handleGotoWord and App.handleGotoWord; typed: "", "abc", "1", "0o17", "017",
\* "400", "-3"
HandleGotoWord ==
    \E value \in { <<>>, <<97, 98, 99>>, <<49>>, <<48, 111, 49, 55>>, <<48, 49, 55>>,
                   <<52, 48, 48>>, <<45, 51>> } :
        LET word == IF startsWith(value, <<48, 111>>) \/ startsWith(value, <<48>>)
                    THEN parseInt(replace(value, <<48, 111>>, <<>>), 8)
                    ELSE parseInt(value, 10)
        IN  IF value # <<>> /\ ~word.nan
            THEN Navigate("handleGotoWord", value, Max(0, word.val), <<word.val>>, rowCount)
            ELSE Navigate("handleGotoWord", value, viewStartWord, selectedWord, rowCount)

\* Toolbar.handleGotoSector and App.handleGotoSector; typed: "x", "0", "2", "-1"
HandleGotoSector ==
    \E value \in { <<120>>, <<48>>, <<50>>, <<45, 49>> } :
        LET sector == parseInt(value, 10)
            word == sector.val * WORDS_PER_SECTOR
        IN  IF value # <<>> /\ ~sector.nan
            THEN Navigate("handleGotoSector", value, word, <<word>>, rowCount)
            ELSE Navigate("handleGotoSector", value, viewStartWord, selectedWord, rowCount)

\* the cells clicked: the first and the last of the page
HandleWordClick ==
    \E wordIndex \in {0, Len(viewWords) - 1} :
        /\ wordIndex >= 0
        /\ wordIndex < Len(viewWords)
        /\ Navigate("handleWordClick", <<>>, viewStartWord, <<viewStartWord + wordIndex>>,
                    rowCount)

HandleScroll ==
    \E delta \in {WORDS_PER_ROW, 0 - WORDS_PER_ROW} :
        Navigate("handleScroll", <<>>,
                 Max(0, Min(viewStartWord + delta,
                            getTotalWords(Image) - WORDS_PER_ROW * rowCount)),
                 selectedWord, rowCount)

\* the effect of HexView and its ResizeObserver: rows = max(4, floor(availableHeight / 24))
UpdateRowCount ==
    \E rows \in {4, 16} :
        /\ rows # rowCount
        /\ Navigate("updateRowCount", <<>>, viewStartWord, selectedWord, rows)

\* a handler of the editor: the page and the selection stay, the disk becomes d
Edit(name, text, d, editing, value, counter) ==
    /\ Mounted
    /\ AppCall(name, text)
    /\ SetImage(d)
    /\ editingWord' = editing
    /\ editValue' = value
    /\ modifiedCounter' = counter
    /\ View(d, FALSE, viewStartWord, selectedWord, rowCount)
    /\ UNCHANGED <<origin, loaded, exported, events, opens>>

OnDisplayModeChange ==
    /\ rendered = ""
    /\ \E mode \in {"octal", "octal-full", "hex", "sixbit", "ascii7"} :
        /\ mode # displayMode
        /\ displayMode' = mode
    /\ AppCall("onDisplayModeChange", <<>>)
    /\ UNCHANGED <<buffer, imageVars, viewStartWord, selectedWord, rowCount, viewWords,
                   editingWord, editValue, modifiedCounter, rendered, events, opens>>

\* the word selected by the two clicks of a double click is opened for editing
HandleWordDoubleClick ==
    /\ writes < MaxWrites
    /\ selectedWord # <<>>
    /\ \E wordIndex \in {selectedWord[1] - viewStartWord} :
        /\ wordIndex >= 0
        /\ wordIndex < Len(viewWords)
        /\ Edit("handleWordDoubleClick", <<>>, Image, <<viewStartWord + wordIndex>>,
                formatWord(displayMode, viewWords[wordIndex + 1]), modifiedCounter)
    /\ UNCHANGED <<displayMode, written, writes>>

\* the cell the edit box is in
EditIndex == editingWord[1] - viewStartWord

Editing == editingWord # <<>> /\ EditIndex >= 0 /\ EditIndex < Len(viewWords)

OnEditChange ==
    /\ Editing
    /\ \E text \in EditTexts :
        Edit("onChange", text, Image, editingWord, text, modifiedCounter)
    /\ UNCHANGED <<displayMode, written, writes>>

\* the keys: "Enter" and "Escape"
Enter == <<69, 110, 116, 101, 114>>
Escape == <<69, 115, 99, 97, 112, 101>>

HandleEditKeyDown ==
    /\ Editing
    /\ \E key \in {Enter, Escape} :
        \E parsed \in {IF displayMode = "hex" THEN parseHex(editValue)
                       ELSE parseOctal(replace(editValue, <<44>>, <<>>))} :
            \E r \in {IF key = Enter /\ ~parsed.threw
                      THEN setWord(Image, viewStartWord + EditIndex,
                                   BigAnd(parsed.value, WORD_MASK))
                      ELSE [error |-> "none", disk |-> Image]} :
                /\ Edit("handleEditKeyDown", key, r.disk, <<>>, editValue,
                        IF r.error = "" THEN modifiedCounter + 1 ELSE modifiedCounter)
                /\ written' = IF r.error # "" THEN written
                               ELSE (viewStartWord + EditIndex :> BigAnd(parsed.value, WORD_MASK))
                                        @@ written
                /\ writes' = IF r.error = "none" THEN writes ELSE writes + 1
    /\ UNCHANGED displayMode

OnEditBlur ==
    /\ Editing
    /\ Edit("onBlur", <<>>, Image, <<>>, editValue, modifiedCounter)
    /\ UNCHANGED <<displayMode, written, writes>>

\* nothing is open: the state InitDisk describes
InitApp == InitDisk

\* finding one's way around an image
NextApp ==
    \/ HandleLoadDisk
    \/ HandleCreateDisk
    \/ HandleGotoWord
    \/ HandleGotoSector
    \/ HandleWordClick
    \/ HandleScroll
    \/ UpdateRowCount

SpecApp == InitApp /\ [][NextApp]_vars

\* editing the words of the first page of an image
NextEdit ==
    \/ HandleLoadDisk
    \/ HandleCreateDisk
    \/ OnDisplayModeChange
    \/ HandleWordClick
    \/ HandleWordDoubleClick
    \/ OnEditChange
    \/ HandleEditKeyDown
    \/ OnEditBlur

SpecEdit == InitApp /\ [][NextEdit]_vars


(***************************************************************************)
(* Properties.                                                             *)
(***************************************************************************)
\* w is a Word36: 0 <= w < 2^36
InRange36(w) == ~w.neg /\ Len(w.bits) <= BITS_PER_WORD

\* the n-bit field of w from bit shift up, (w >> shift) & (2^n - 1), as a number
Field(w, shift, n) == BitsValue([b \in 1..n |-> BitAt(w, shift + b - 1)])

\* v mod 2^36
Mod36(v) == Trim(FALSE, [b \in 1..BITS_PER_WORD |-> BitAt(v, b - 1)])

\* the eight bytes of the slot at a byte offset
SlotBytes(buf, o) == [k \in 1..BYTES_PER_SIMH_WORD |-> ByteAt(buf, o + k - 1)]

\* the 64-bit little-endian value of the slot, bit b of it
SlotBit(buf, o, b) == (ByteAt(buf, o + (b \div 8)) \div (2 ^ (b % 8))) % 2

AllOnes == Word36(262143, 262143)

IsOctalDigit(c) == c >= 48 /\ c <= 55

\* C1: for every word w in [0, 2^36) and every slot offset, writeWord(buffer, off, w)
\* followed by readWord(buffer, off) returns exactly w.
C1_WriteReadRoundTrip ==
    (op = "writeWord" /\ off \in SlotOffsets /\ InRange36(argWord))
        => /\ err = ""
           /\ readWord(buffer, off) = [threw |-> FALSE, value |-> argWord]

C1_Witness ==
    /\ op = "writeWord"
    /\ off = 8
    /\ argWord = Word36(42798, 262143)
    /\ SlotBytes(buffer, 0) # SlotBytes(buffer, 8)

C3_WriteMasks ==
    (op = "writeWord" /\ off \in SlotOffsets)
        => /\ err = ""
           /\ \A b \in 0..63 :
                SlotBit(buffer, off, b)
                    = IF b < BITS_PER_WORD THEN BitAt(Mod36(argWord), b) ELSE 0
           /\ Mod36(argWord) = AllOnes
                => SlotBytes(buffer, off) = <<255, 255, 255, 255, 15, 0, 0, 0>>

C3_Witness ==
    /\ op = "writeWord"
    /\ off = 0
    /\ ~InRange36(argWord)
    /\ argWord = BigInt(0 - 2)
    /\ SlotBytes(buffer, 0) = <<254, 255, 255, 255, 15, 0, 0, 0>>

\* C4: for all left, right in [0, 2^18): leftHalf(makeWord(left, right)) = left and
\* rightHalf(makeWord(left, right)) = right.
IsHalfword(x) == ~x.nan /\ x.val >= 0 /\ x.val < 262144

C4_HalvesRoundTrip ==
    (op = "makeWord" /\ IsHalfword(argHalves[1]) /\ IsHalfword(argHalves[2]))
        => /\ leftHalf(retWord) = argHalves[1].val
           /\ rightHalf(retWord) = argHalves[2].val

C4_Witness ==
    /\ op = "makeWord"
    /\ argHalves = <<Num(42798), Num(262143)>>
    /\ retWord = Word36(42798, 262143)

\* C5: for every word w in [0, 2^36): parseOctal(formatOctal(w)) = w and
\* parseOctal(formatOctalFull(w)) = w.
C5_OctalRoundTrip ==
    (op \in {"formatOctal", "formatOctalFull"} /\ InRange36(argWord))
        => parseOctal(retStr) = [threw |-> FALSE, value |-> argWord]

C5_Witness ==
    /\ op = "formatOctal"
    /\ argWord = Word36(42798, 1)
    /\ retStr = <<49, 50, 51, 52, 53, 54, 44, 48, 48, 48, 48, 48, 49>>

\* C6: parseOctal throws whenever the input, white space stripped, holds a character that
\* is no octal digit (in either halfword string of the comma form, or in the comma-free
\* form); parseHex throws whenever the stripped input holds a character that is no hex digit.
C6_ParseRejectsNonDigits ==
    /\ (op = "parseOctal"
            /\ \E i \in 1..Len(argText) :
                ~IsSpace(argText[i]) /\ argText[i] # 44 /\ DigitValue(argText[i]) >= 8)
        => err # ""
    /\ (op = "parseHex"
            /\ \E i \in 1..Len(argText) : ~IsSpace(argText[i]) /\ DigitValue(argText[i]) >= 16)
        => err # ""

\* C7: for every word w in [0, 2^36): formatOctalFull(w) is 12 octal digits, formatHex(w)
\* is 9 characters, formatBinary(w) is 36 characters, formatOctal(w) is 6 octal digits, a
\* comma, 6 octal digits.
C7_FormatWidths ==
    InRange36(argWord)
        => /\ op = "formatOctalFull"
                => Len(retStr) = 12 /\ \A i \in 1..Len(retStr) : IsOctalDigit(retStr[i])
           /\ op = "formatHex" => Len(retStr) = 9
           /\ op = "formatBinary" => Len(retStr) = 36
           /\ op = "formatOctal"
                => /\ Len(retStr) = 13
                   /\ \A i \in 1..Len(retStr) :
                        IF i = 7 THEN retStr[i] = 44 ELSE IsOctalDigit(retStr[i])

C7_Witness ==
    /\ op = "formatHex"
    /\ argWord = Word36(0, 42798)
    /\ retStr = <<48, 48, 48, 48, 48, 65, 55, 50, 69>>

\* C8: toSixbit and fromSixbit are inverses: toSixbit(fromSixbit(s)) = s for every
\* 6-character string s with all codes in [32, 96), and fromSixbit(toSixbit(w)) = w for
\* every word w in [0, 2^36), character i of toSixbit(w) being ((w >> (5-i)*6) & 63) + 32.
C8_SixbitInverse ==
    /\ (op = "fromSixbit" /\ Len(argText) = 6
            /\ \A i \in 1..Len(argText) : argText[i] >= 32 /\ argText[i] < 96)
        => toSixbit(retWord) = argText
    /\ (op = "toSixbit" /\ InRange36(argWord))
        => /\ fromSixbit(retStr) = argWord
           /\ Len(retStr) = 6
           /\ \A i \in 0..5 : retStr[i + 1] = Field(argWord, (5 - i) * 6, 6) + 32

C8_Witness ==
    /\ op = "fromSixbit"
    /\ argText = <<65, 66, 67, 49, 50, 51>>
    /\ retWord = Word36(137379, 70803)

\* w with its bit 0 (the lowest) flipped
FlipBit0(w) ==
    Trim(w.neg, IF w.bits = <<>> THEN <<1 - SignBit(w.neg)>>
                ELSE <<1 - Head(w.bits)>> \o Tail(w.bits))

\* C9: for every word w, toAscii7(w) has 5 characters, character i (0..4) being the
\* character of code c = (w >> (29 - 7i)) & 127 when 32 <= c < 127 and '.' otherwise; bit 0
\* of w does not affect the result.
C9_Ascii7 ==
    (op = "toAscii7" /\ InRange36(argWord))
        => /\ Len(retStr) = 5
           /\ \A i \in 0..4 :
                LET c == Field(argWord, 29 - 7 * i, 7)
                IN  retStr[i + 1] = IF 32 <= c /\ c < 127 THEN c ELSE 46
           /\ toAscii7(FlipBit0(argWord)) = retStr

C9_Witness ==
    /\ op = "toAscii7"
    /\ argWord = Word36(148569, 150687)
    /\ BitAt(argWord, 0) = 1
    /\ retStr = <<72, 69, 76, 76, 79>>

\* C10: for each of the five geometries g and every sector index n with
\* 0 <= n < g.totalSectors, sectorToCHS(n, g) is (c, h, s) with 0 <= c < g.cylinders,
\* 0 <= h < g.heads, 0 <= s < g.sectorsPerTrack, and chsToSector(c, h, s, g) = n.
C10_CHSRoundTrip ==
    LET g == DISK_TYPES[argGeometry]
    IN  (op = "sectorToCHS" /\ 0 <= argSector /\ argSector < totalSectors(g))
            => /\ 0 <= retCHS.cylinder /\ retCHS.cylinder < g.cylinders
               /\ 0 <= retCHS.head /\ retCHS.head < g.heads
               /\ 0 <= retCHS.sector /\ retCHS.sector < g.sectorsPerTrack
               /\ chsToSector(retCHS.cylinder, retCHS.head, retCHS.sector, g) = argSector

C10_Witness ==
    /\ op = "sectorToCHS"
    /\ argGeometry = 3
    /\ argSector = 2751
    /\ retCHS = [cylinder |-> 1, head |-> 31, sector |-> 42]

\* C11: detectDiskType(n) returns the first geometry in table order (RP04, RP06, RP07, RM03,
\* RM80) whose totalBytes differs from n by less than 100 * 1024 bytes, and null when there
\* is none; for n = g.totalBytes it returns g or an entry before g that is within tolerance.
C11_DetectDiskType ==
    op = "detectDiskType"
        => LET near == {k \in 1..Len(DISK_TYPES) :
                            Abs(argSize - totalBytes(DISK_TYPES[k])) < 100 * 1024}
           IN  /\ near = {} => retGeometry = 0
               /\ near # {} => retGeometry \in near /\ \A k \in near : retGeometry <= k
               /\ \A g \in 1..Len(DISK_TYPES) :
                    argSize = totalBytes(DISK_TYPES[g])
                        => retGeometry \in near /\ retGeometry <= g
               /\ <<DISK_TYPES[1].name, DISK_TYPES[2].name, DISK_TYPES[3].name,
                     DISK_TYPES[4].name, DISK_TYPES[5].name>>
                        = <<"RP04", "RP06", "RP07", "RM03", "RM80">>

C11_Witness ==
    /\ op = "detectDiskType"
    /\ argSize = totalBytes(DISK_TYPES[4]) + 102399
    /\ retGeometry = 4

\* C12: createEmptyDisk(name) for a cataloged geometry yields an image whose buffer is
\* cylinders * heads * sectorsPerTrack * wordsPerSector * 8 bytes long (411*19*20*128*8 for
\* RP04), whose every word reads as 0, whose geometry is the catalog entry named, and whose
\* modified flag is true.
C12_CreateEmptyDisk ==
    op = "createEmptyDisk"
        => LET g == DISK_TYPES[argIndex]
           IN  /\ buffer.byteLength
                    = g.cylinders * g.heads * g.sectorsPerTrack * g.wordsPerSector * 8
               /\ argIndex = 1 => buffer.byteLength = 411 * 19 * 20 * 128 * 8
               /\ \A o \in DOMAIN buffer.bytes : buffer.bytes[o] = 0
               /\ \A i \in {0, 1, 127, 128, getTotalWords(Image) \div 2, getTotalWords(Image) - 1} :
                    getWord(Image, i) = [error |-> "", value |-> BigInt(0)]
               /\ diskGeometry = argIndex
               /\ g.name = <<"RP04", "RP06", "RP07", "RM03", "RM80">>[argIndex]
               /\ diskModified = TRUE

C12_Witness ==
    /\ op = "createEmptyDisk"
    /\ argIndex = 1
    /\ buffer.byteLength = 159928320
    /\ diskName = <<110, 101, 119, 95, 114, 112, 48, 52, 46, 100, 115, 107>>
    /\ diskModified

\* C13: for every image (also one with no geometry or a length that is no multiple of 8)
\* and every index i >= 0, getWord(disk, i) and setWord(disk, i, v) succeed exactly when
\* i < getTotalWords(disk) = floor(byteLength / 8) and fail as out of bounds exactly when
\* i * 8 + 8 > byteLength.
C13_WordBounds ==
    (op \in {"getWord", "setWord"} /\ argIndex >= 0)
        => /\ getTotalWords(Image) = buffer.byteLength \div 8
           /\ err = "" <=> argIndex < getTotalWords(Image)
           /\ err = OutOfBounds <=> argIndex * 8 + 8 > buffer.byteLength
           /\ err \in {"", OutOfBounds}

C13_Witness ==
    /\ op = "setWord"
    /\ err = ""
    /\ argIndex = getTotalWords(Image) - 1
    /\ diskGeometry = 0
    /\ buffer.byteLength % 8 # 0

\* the step is a call of the function fn on the image
Calls(fn) == op' = fn /\ writes' = writes + 1

\* every byte of b outside the 8 bytes at offset o is as in a
SameOutside(a, b, o) ==
    \A x \in DOMAIN a.bytes \cup DOMAIN b.bytes :
        (x < o \/ x >= o + BYTES_PER_SIMH_WORD) => ByteAt(b, x) = ByteAt(a, x)

\* the 8 bytes that hold v mod 2^36, little-endian
Encoded(v) == [k \in 1..BYTES_PER_SIMH_WORD |-> Field(Mod36(v), 8 * (k - 1), 8)]

\* C14: setWord is all-or-nothing and local: when it fails (out of bounds) no byte of the
\* buffer changes and the modified flag stays; when it succeeds exactly the 8 bytes at
\* offset index * 8 are overwritten and modified becomes true, every other byte, the buffer
\* length, the name and the geometry staying as they were.
C14_SetWordFrame ==
    [][Calls("setWord")
        => /\ err' # "" => buffer' = buffer /\ diskModified' = diskModified
           /\ err' = ""
                => /\ SlotBytes(buffer', argIndex' * 8) = Encoded(argWord')
                   /\ SameOutside(buffer, buffer', argIndex' * 8)
                   /\ diskModified' = TRUE
           /\ buffer'.byteLength = buffer.byteLength
           /\ diskName' = diskName
           /\ diskGeometry' = diskGeometry]_vars

C14_Witness ==
    /\ op = "setWord"
    /\ err = ""
    /\ argIndex = 320
    /\ writes = 1
    /\ SlotBytes(buffer, 2560) = <<85, 85, 169, 170, 10, 0, 0, 0>>
    /\ SlotBytes(loaded, 2560) = <<2, 0, 4, 0, 0, 0, 0, 0>>
    /\ SlotBytes(buffer, 2552) = SlotBytes(loaded, 2552)

\* C15: for every sectorIndex >= 0, getSector(disk, sectorIndex) returns exactly 128 words,
\* the i-th equal to getWord(disk, sectorIndex * 128 + i), when sectorIndex <
\* getTotalSectors(disk) = floor(byteLength / 1024), and otherwise fails as out of bounds
\* (also when only the tail of the sector lies past the end of the buffer); the sector
\* count is that of the raw buffer length, not of the detected geometry.
C15_GetSector ==
    (op = "getSector" /\ argIndex >= 0)
        => /\ getTotalSectors(Image) = buffer.byteLength \div 1024
           /\ argIndex < getTotalSectors(Image)
                => /\ err = ""
                   /\ Len(retWords) = 128
                   /\ \A i \in 0..127 :
                        getWord(Image, argIndex * 128 + i) = [error |-> "", value |-> retWords[i + 1]]
           /\ argIndex >= getTotalSectors(Image) => err = OutOfBounds

C15_Witness ==
    /\ op = "getSector"
    /\ err = OutOfBounds
    /\ argIndex = getTotalSectors(Image)
    /\ diskGeometry = 4
    /\ argIndex < totalSectors(DISK_TYPES[diskGeometry])
    /\ getWord(Image, argIndex * 128).error = ""

\* C16: setSector(disk, sectorIndex, words) fails as a length mismatch whenever words has
\* not exactly 128 entries, whatever the sectorIndex, with the buffer and the modified flag
\* unchanged; when words has 128 entries and the sector lies inside the buffer, afterwards
\* getSector(disk, sectorIndex) is words, each reduced mod 2^36.
C16_SetSector ==
    [][Calls("setSector")
        => /\ Len(argWords') # 128
                => err' = LengthMismatch /\ buffer' = buffer /\ diskModified' = diskModified
           /\ (Len(argWords') = 128 /\ argIndex' >= 0 /\ argIndex' < getTotalSectors(Image))
                => /\ err' = ""
                   /\ getSector(Image', argIndex')
                        = [error |-> "", words |-> [i \in 1..128 |-> Mod36(argWords'[i])]]]_vars

C16_Witness ==
    /\ op = "setSector"
    /\ err = ""
    /\ Len(argWords) = 128
    /\ argIndex = 0
    /\ argWords[2] = BigInt(0 - 1)
    /\ getWord(Image, 1).value = AllOnes

\* C17: for all startIndex >= 0 and count >= 0, getWords(disk, startIndex, count) never
\* raises out of bounds and returns exactly min(count, max(0, totalWords - startIndex))
\* words, the k-th equal to getWord(disk, startIndex + k); getWords(disk, totalWords - 3, 10)
\* returns exactly 3 words.
C17_GetWords ==
    (op = "getWords" /\ argIndex >= 0 /\ argCount >= 0)
        => /\ err = ""
           /\ Len(retWords) = Min(argCount, Max(0, getTotalWords(Image) - argIndex))
           /\ \A k \in 0..(Len(retWords) - 1) :
                getWord(Image, argIndex + k) = [error |-> "", value |-> retWords[k + 1]]
           /\ (argIndex = getTotalWords(Image) - 3 /\ argCount = 10) => Len(retWords) = 3

C17_Witness ==
    /\ op = "getWords"
    /\ argIndex = getTotalWords(Image) - 3
    /\ argCount = 10
    /\ retWords = <<P1, P2, P1>>
    /\ err = ""

\* the pattern stands in the image at word index i
MatchesAt(pattern, i) ==
    \A j \in 0..(Len(pattern) - 1) : getWord(Image, i + j) = [error |-> "", value |-> pattern[j + 1]]

\* C18: for a non-empty pattern and startOffset >= 0, searchWords(disk, pattern,
\* startOffset) returns the lowest index i in [startOffset, totalWords - pattern.length] at
\* which every pattern word equals the disk word at i + j, and returns -1 exactly when
\* there is no such index (also when the pattern is longer than what is left of the image).
C18_SearchWords ==
    (op = "searchWords" /\ Len(argWords) > 0 /\ argIndex >= 0)
        => LET hits == {i \in argIndex..(getTotalWords(Image) - Len(argWords)) :
                            MatchesAt(argWords, i)}
           IN  /\ err = ""
               /\ hits = {} <=> retIndex = 0 - 1
               /\ hits # {} => retIndex \in hits /\ \A h \in hits : retIndex <= h

C18_Witness ==
    /\ op = "searchWords"
    /\ argWords = <<P1, P2>>
    /\ argIndex = 0
    /\ retIndex = 5
    /\ MatchesAt(argWords, 10)

\* what word i must read as: the value last written to it, mod 2^36, or what the bytes the
\* image was made with decode to
Expected(i) ==
    IF i \in DOMAIN written THEN Mod36(written[i])
    ELSE readWord(loaded, i * BYTES_PER_SIMH_WORD).value

\* C19: after any sequence of setWord and setSector calls (successful or failed),
\* getWord(disk, i) for every in-range i returns the value most recently written to word i
\* reduced mod 2^36, or the decode of the original bytes if word i was never written;
\* getSector, getWords and the exported buffer agree with it.
C19_BufferIsTruth ==
    /\ (origin # "none" /\ op \notin Reads)
        => /\ \A i \in DOMAIN written : getWord(Image, i) = [error |-> "", value |-> Expected(i)]
           /\ \A i \in {0, 1, 5, 128, getTotalWords(Image) - 2, getTotalWords(Image) - 1} :
                (i >= 0 /\ i < getTotalWords(Image))
                    => getWord(Image, i) = [error |-> "", value |-> Expected(i)]
           /\ \A o \in DOMAIN buffer.bytes \cup DOMAIN loaded.bytes :
                (o \div BYTES_PER_SIMH_WORD) \notin DOMAIN written
                    => ByteAt(buffer, o) = ByteAt(loaded, o)
           /\ buffer.byteLength = loaded.byteLength
    /\ (op = "getWord" /\ err = "") => retWord = Expected(argIndex)
    /\ (op = "getSector" /\ err = "")
        => \A i \in 0..(WORDS_PER_SECTOR - 1) :
                retWords[i + 1] = Expected(argIndex * WORDS_PER_SECTOR + i)
    /\ (op = "getWords" /\ err = "")
        => \A k \in 0..(Len(retWords) - 1) : retWords[k + 1] = Expected(argIndex + k)
    /\ op = "downloadDisk" => exported = [bytes |-> buffer, download |-> diskName]

C19_Witness ==
    /\ op = "getWord"
    /\ argIndex = 0
    /\ writes = 2
    /\ 1 \in DOMAIN written
    /\ written[0] = BigInt(0 - 2)
    /\ retWord = Word36(262143, 262142)
    /\ readWord(loaded, 0).value = AllOnes

\* C20: in every reachable state of a DiskImage, modified is true exactly when the image
\* was made by createEmptyDisk or at least one word write has been applied to it since
\* loadDiskImage, which sets modified = false and geometry = detectDiskType(byteLength);
\* once true the flag never returns to false; and modified = false implies that the buffer
\* is byte for byte the loaded one.
C20_Modified ==
    /\ [](origin # "none"
            => /\ diskModified <=> (origin = "createEmptyDisk" \/ DOMAIN written # {})
               /\ ~diskModified => buffer = loaded
               /\ op = "loadDiskImage"
                    => ~diskModified /\ diskGeometry = detectDiskType(buffer.byteLength))
    /\ [][diskModified => diskModified']_vars

C20_Witness ==
    /\ origin = "loadDiskImage"
    /\ op = "setSector"
    /\ err = OutOfBounds
    /\ writes = 1
    /\ DOMAIN written = 256..320
    /\ diskModified

\* C21: setSector with 128 words on a sector that does not lie entirely inside the buffer
\* (sectorNumber * 128 + 128 > totalWords) fails with the out-of-bounds error and writes
\* nothing: the buffer and the modified flag are as before the call.
C21_SetSectorAllOrNothing ==
    [][(/\ Calls("setSector")
        /\ Len(argWords') = WORDS_PER_SECTOR
        /\ argIndex' * WORDS_PER_SECTOR + WORDS_PER_SECTOR > getTotalWords(Image))
            => /\ err' = OutOfBounds
               /\ buffer' = buffer
               /\ diskModified' = diskModified]_vars

\* the functions that only read the image
ReadOnly == {"getTotalWords", "getTotalSectors", "getWord", "getSector", "getWords", "searchWords"}

C26_DecodeLossless ==
    (op = "WordDetails" /\ InRange36(argWord))
        => /\ decoded.opcode \in 0..511
           /\ decoded.ac \in 0..15
           /\ decoded.indirect \in 0..1
           /\ decoded.index \in 0..15
           /\ decoded.address \in 0..262143
           /\ Word36(decoded.opcode * 512 + decoded.ac * 32 + decoded.indirect * 16
                        + decoded.index,
                     decoded.address) = argWord

\* 0o442131,446236: opcode 0o442, accumulator 2, indirect, index 9
C26_Witness ==
    /\ op = "WordDetails"
    /\ argWord = Word36(148569, 150686)
    /\ decoded = [opcode |-> 290, ac |-> 2, indirect |-> 1, index |-> 9, address |-> 150686]

\* C24: in the App, after any sequence of load, create, go-to-word, go-to-sector, click and
\* scroll, whenever a disk is present and selectedWord is not null,
\* 0 <= selectedWord < getTotalWords(disk), so the getWord(disk, selectedWord) call made
\* while rendering WordDetails never fails and the render completes.
C24_SelectionInBounds ==
    (origin # "none" /\ selectedWord # <<>>)
        => /\ 0 <= selectedWord[1]
           /\ selectedWord[1] < getTotalWords(Image)
           /\ rendered = ""

\* the text does not match the grammar of the display mode: hex digits in hex mode, octal
\* digits and the comma otherwise, white space aside
NoMatch(mode, text) ==
    \E i \in 1..Len(text) :
        /\ ~IsSpace(text[i])
        /\ IF mode = "hex" THEN DigitValue(text[i]) >= 16
           ELSE text[i] # 44 /\ DigitValue(text[i]) >= 8

\* C23: in the editor, Enter on edit text that does not match the octal grammar (the hex
\* grammar in hex display mode) discards the edit: the disk buffer and the modified flag
\* stay as they were, onDiskModified is not called, and editing ends.
C23_BadEditDiscarded ==
    [][(op' = "handleEditKeyDown" /\ argText' = Enter /\ NoMatch(displayMode, editValue))
            => /\ buffer' = buffer
               /\ diskModified' = diskModified
               /\ modifiedCounter' = modifiedCounter
               /\ editingWord' = <<>>]_vars

\* C25: in the editor, double-clicking a word (which pre-fills the edit box with the word
\* formatted in the current display mode) and pressing Enter without changing the text
\* leaves that word's stored value unchanged, in every display mode.
C25_EnterKeepsWord ==
    [][(op = "handleWordDoubleClick" /\ op' = "handleEditKeyDown" /\ argText' = Enter)
            => getWord(Image', editingWord[1]) = getWord(Image, editingWord[1])]_vars
====
